---- MODULE Spec2Model ----
(***************************************************************************)
(* Model of create_workflow of workflow_generator.py: the construction of  *)
(* the MAG job graph from a list of samples and a pipeline configuration.  *)
(* A Pegasus File is modelled by its logical file name (a string), a Job   *)
(* by the record of what add_args / add_inputs / add_outputs /             *)
(* add_profiles have recorded on it, and the Workflow by the sequence of   *)
(* the jobs handed to add_jobs, in order.                                  *)
(***************************************************************************)
EXTENDS Naturals, Sequences, FiniteSets, TLC

\* The parameters of create_workflow (workflow_generator.py lines 269-278),
\* its locals wf, all_qc_files and all_bin_dirs (lines 316-320), the position
\* idx of "for sample in samples" (line 322) and the control position pc.
\* calls counts the calls of create_workflow made so far, and previous is the
\* Workflow that the call before the current one returned.
VARIABLES samples, assembler, skip_binning, skip_taxonomy, skip_annotation,
          skip_fastqc, gtdbtk_db, checkm2_db,
          wf, all_qc_files, all_bin_dirs, idx, pc,
          calls, previous

vars == <<samples, assembler, skip_binning, skip_taxonomy, skip_annotation,
          skip_fastqc, gtdbtk_db, checkm2_db,
          wf, all_qc_files, all_bin_dirs, idx, pc, calls, previous>>

callVars == <<calls, previous>>

inputVars == <<samples, assembler, skip_binning, skip_taxonomy, skip_annotation,
               skip_fastqc, gtdbtk_db, checkm2_db>>

(***************************************************************************)
(* Bounds of the model and the input domains.                              *)
(***************************************************************************)
MaxSamples == 2

\* "s1_trimmed" is the id whose raw read name is another sample's fastp output.
SampleIds == {"s1", "s2", "s1_trimmed"}

Assemblers == {"megahit", "spades"}

\* The default of gtdbtk_db and checkm2_db.  None and the empty string are
\* both falsy in "if checkm2_db:"; "" stands for both.
NoDb == ""

SampleRecords == [id : SampleIds, single_end : BOOLEAN]

SampleLists == UNION {[1..n -> SampleRecords] : n \in 0..MaxSamples}

\* The sample lists of the runs that call create_workflow twice.
TwoCallSampleIds == {"s1", "s1_trimmed"}

TwoCallSampleLists ==
    UNION {[1..n -> [id : TwoCallSampleIds, single_end : BOOLEAN]] :
              n \in 0..MaxSamples}

\* The samples of the runs that look at the read files: the records
\* parse_samplesheet returns, with their fastq_1 and fastq_2 paths.  A row
\* with an empty fastq_1 is dropped by parse_samplesheet, so fastq_1 is never
\* empty; fastq_2 is empty, the path of a file, or a path with no file.
ReadsSampleIds == {"s1", "s2"}

ExistingPaths == {"/data/R1.fastq.gz", "/data/R2.fastq.gz"}

Fastq1Paths == {"/data/R1.fastq.gz"}

Fastq2Paths == {"", "/data/R2.fastq.gz", "/data/gone_R2.fastq.gz"}

ReadsSampleRecords ==
    [id : ReadsSampleIds, single_end : BOOLEAN,
     fastq_1 : Fastq1Paths, fastq_2 : Fastq2Paths]

ReadsSampleLists == UNION {[1..n -> ReadsSampleRecords] : n \in 0..MaxSamples}

os_path_exists(path) == path \in ExistingPaths

\* The logical file names create_replica_catalog registers.
create_replica_catalog(sample_list) ==
    UNION {(IF sample_list[k].fastq_1 # "" /\ os_path_exists(sample_list[k].fastq_1)
            THEN {sample_list[k].id \o "_R1.fastq.gz"}
            ELSE {})
           \cup
           (IF /\ ~sample_list[k].single_end
               /\ sample_list[k].fastq_2 # ""
               /\ os_path_exists(sample_list[k].fastq_2)
            THEN {sample_list[k].id \o "_R2.fastq.gz"}
            ELSE {}) : k \in 1..Len(sample_list)}

\* The values of the --checkm2-db and --gtdbtk-db options.
Checkm2DbPaths == {NoDb, "/db/checkm2"}

GtdbtkDbPaths == {NoDb, "/db/gtdbtk"}

(***************************************************************************)
(* The resource profile of each transformation in the catalog.             *)
(***************************************************************************)
TOOL_CONFIGS ==
    [tool \in {"fastqc", "fastp", "megahit", "spades", "quast", "prodigal",
               "metabat2", "checkm2", "gtdbtk", "prokka", "multiqc"} |->
        CASE tool = "fastqc" -> [memory |-> "2GB", cores |-> 2]
          [] tool = "fastp" -> [memory |-> "4GB", cores |-> 4]
          [] tool = "megahit" -> [memory |-> "16GB", cores |-> 8]
          [] tool = "spades" -> [memory |-> "32GB", cores |-> 16]
          [] tool = "quast" -> [memory |-> "4GB", cores |-> 4]
          [] tool = "prodigal" -> [memory |-> "4GB", cores |-> 1]
          [] tool = "metabat2" -> [memory |-> "8GB", cores |-> 4]
          [] tool = "checkm2" -> [memory |-> "16GB", cores |-> 8]
          [] tool = "gtdbtk" -> [memory |-> "64GB", cores |-> 8]
          [] tool = "prokka" -> [memory |-> "8GB", cores |-> 4]
          [] tool = "multiqc" -> [memory |-> "4GB", cores |-> 2]]

(***************************************************************************)
(* The Pegasus API calls, as far as create_workflow uses them.             *)
(***************************************************************************)
File(lfn) == lfn

Job(transformation) ==
    [transformation |-> transformation, args |-> <<>>, inputs |-> <<>>,
     outputs |-> <<>>, profiles |-> <<>>]

add_args(job, more) == [job EXCEPT !.args = @ \o more]

add_inputs(job, files) == [job EXCEPT !.inputs = @ \o files]

add_outputs(job, files) == [job EXCEPT !.outputs = @ \o files]

add_profiles(job, key, value) ==
    [job EXCEPT !.profiles = Append(@, [key |-> key, value |-> value])]

(***************************************************************************)
(* The per-sample locals of the loop body.                                 *)
(***************************************************************************)
is_paired(sample) == ~sample.single_end

r1_input(sample) == File(sample.id \o "_R1.fastq.gz")

r2_input(sample) == File(sample.id \o "_R2.fastq.gz")

trimmed_r1(sample) == File(sample.id \o "_trimmed_R1.fastq.gz")

trimmed_r2(sample) == File(sample.id \o "_trimmed_R2.fastq.gz")

fastp_json(sample) == File(sample.id \o "_fastp.json")

contigs(sample) == File(sample.id \o "_contigs.fa")

quast_report(sample) == File(sample.id \o "_quast_report.tsv")

bins_dir(sample) == File(sample.id \o "_bins")

depth_file(sample) == File(sample.id \o "_depth.txt")

checkm2_report(sample) == File(sample.id \o "_checkm2_quality.tsv")

(***************************************************************************)
(* Step 1: FastQC on the raw reads.                                        *)
(***************************************************************************)
fastqc_job(sample) ==
    LET fastqc_r1_html == File(sample.id \o "_R1_fastqc.html")
        fastqc_r1_zip == File(sample.id \o "_R1_fastqc.zip")
        fastqc_r2_html == File(sample.id \o "_R2_fastqc.html")
        fastqc_r2_zip == File(sample.id \o "_R2_fastqc.zip")
        j1 == add_args(Job("fastqc"), <<"--outdir", ".", "--threads", "2">>)
        j2 == add_inputs(j1, <<r1_input(sample)>>)
        j3 == add_outputs(j2, <<fastqc_r1_html, fastqc_r1_zip>>)
    IN  IF is_paired(sample)
        THEN add_outputs(add_inputs(j3, <<r2_input(sample)>>),
                         <<fastqc_r2_html, fastqc_r2_zip>>)
        ELSE j3

\* Variant of fastqc_qc_files that forgets the R2 zip of a paired sample.
fastqc_qc_files_r1_only(sample) == <<File(sample.id \o "_R1_fastqc.zip")>>

fastqc_qc_files(sample) ==
    IF is_paired(sample)
    THEN <<File(sample.id \o "_R1_fastqc.zip"), File(sample.id \o "_R2_fastqc.zip")>>
    ELSE <<File(sample.id \o "_R1_fastqc.zip")>>

(***************************************************************************)
(* Step 2: fastp.                                                          *)
(***************************************************************************)
\* Variant of fastp_job that waits for the FastQC report when FastQC runs.
fastp_job_after_fastqc(sample) ==
    LET fastp_html == File(sample.id \o "_fastp.html")
        j1 == add_args(Job("fastp"),
                  <<"-i", r1_input(sample), "-o", trimmed_r1(sample),
                    "--json", fastp_json(sample), "--html", fastp_html,
                    "--thread", "4", "--qualified_quality_phred", "20",
                    "--length_required", "50">>)
        j2 == add_inputs(j1, <<r1_input(sample)>>
                             \o (IF skip_fastqc THEN <<>>
                                 ELSE <<File(sample.id \o "_R1_fastqc.html")>>))
        j3 == add_outputs(j2, <<trimmed_r1(sample), fastp_json(sample), fastp_html>>)
    IN  IF is_paired(sample)
        THEN add_outputs(
                 add_inputs(
                     add_args(j3, <<"-I", r2_input(sample), "-O", trimmed_r2(sample)>>),
                     <<r2_input(sample)>>),
                 <<trimmed_r2(sample)>>)
        ELSE j3

fastp_job(sample) ==
    LET fastp_html == File(sample.id \o "_fastp.html")
        j1 == add_args(Job("fastp"),
                  <<"-i", r1_input(sample), "-o", trimmed_r1(sample),
                    "--json", fastp_json(sample), "--html", fastp_html,
                    "--thread", "4", "--qualified_quality_phred", "20",
                    "--length_required", "50">>)
        j2 == add_inputs(j1, <<r1_input(sample)>>)
        j3 == add_outputs(j2, <<trimmed_r1(sample), fastp_json(sample), fastp_html>>)
    IN  IF is_paired(sample)
        THEN add_outputs(
                 add_inputs(
                     add_args(j3, <<"-I", r2_input(sample), "-O", trimmed_r2(sample)>>),
                     <<r2_input(sample)>>),
                 <<trimmed_r2(sample)>>)
        ELSE j3

(***************************************************************************)
(* Step 3: assembly with MEGAHIT or SPAdes.                                *)
(***************************************************************************)
\* Variant of megahit_job without the single-end branch.
megahit_job_always_paired(sample) ==
    add_inputs(
        add_args(Job("megahit"),
            <<"-1", trimmed_r1(sample), "-2", trimmed_r2(sample),
              "-o", sample.id \o "_megahit", "-t", "8",
              "--min-contig-len", "1000">>),
        <<trimmed_r1(sample), trimmed_r2(sample)>>)

megahit_job(sample) ==
    IF is_paired(sample)
    THEN add_inputs(
             add_args(Job("megahit"),
                 <<"-1", trimmed_r1(sample), "-2", trimmed_r2(sample),
                   "-o", sample.id \o "_megahit", "-t", "8",
                   "--min-contig-len", "1000">>),
             <<trimmed_r1(sample), trimmed_r2(sample)>>)
    ELSE add_inputs(
             add_args(Job("megahit"),
                 <<"-r", trimmed_r1(sample),
                   "-o", sample.id \o "_megahit", "-t", "8",
                   "--min-contig-len", "1000">>),
             <<trimmed_r1(sample)>>)

spades_job(sample) ==
    IF is_paired(sample)
    THEN add_inputs(
             add_args(Job("spades"),
                 <<"-1", trimmed_r1(sample), "-2", trimmed_r2(sample),
                   "-o", sample.id \o "_spades", "-t", "16", "--meta">>),
             <<trimmed_r1(sample), trimmed_r2(sample)>>)
    ELSE add_inputs(
             add_args(Job("spades"),
                 <<"-s", trimmed_r1(sample),
                   "-o", sample.id \o "_spades", "-t", "16", "--meta">>),
             <<trimmed_r1(sample)>>)

assembly_job(sample, asm) ==
    LET assembly_log == File(sample.id \o "_assembly.log")
        j1 == IF asm = "megahit" THEN megahit_job(sample) ELSE spades_job(sample)
        j2 == add_outputs(j1, <<contigs(sample), assembly_log>>)
    IN  add_profiles(j2, "memory", "16GB")

(***************************************************************************)
(* Step 4: QUAST, and step 5: Prodigal.                                    *)
(***************************************************************************)
quast_job(sample) ==
    LET quast_html == File(sample.id \o "_quast_report.html")
        j1 == add_args(Job("quast"),
                  <<contigs(sample), "-o", sample.id \o "_quast",
                    "--min-contig", "1000", "--threads", "4">>)
        j2 == add_inputs(j1, <<contigs(sample)>>)
    IN  add_outputs(j2, <<quast_report(sample), quast_html>>)

prodigal_job(sample) ==
    LET genes_faa == File(sample.id \o "_genes.faa")
        genes_gff == File(sample.id \o "_genes.gff")
        j1 == add_args(Job("prodigal"),
                  <<"-i", contigs(sample), "-a", genes_faa, "-o", genes_gff,
                    "-f", "gff", "-p", "meta">>)
        j2 == add_inputs(j1, <<contigs(sample)>>)
    IN  add_outputs(j2, <<genes_faa, genes_gff>>)

(***************************************************************************)
(* Step 6: MetaBAT2 (depth, then binning).                                 *)
(***************************************************************************)
depth_job(sample) ==
    LET j1 == add_args(Job("metabat2"),
                  <<"jgi_summarize_bam_contig_depths", "--outputDepth",
                    depth_file(sample), contigs(sample)>>)
        j2 == add_inputs(j1, <<contigs(sample)>>)
    IN  add_outputs(j2, <<depth_file(sample)>>)

\* Variant of metabat_job that declares the depth job's output as its own.
metabat_job_outputs_depth(sample) ==
    LET j1 == add_args(Job("metabat2"),
                  <<"-i", contigs(sample), "-a", depth_file(sample),
                    "-o", sample.id \o "_bins/bin", "-m", "1500", "-t", "4">>)
        j2 == add_inputs(j1, <<contigs(sample), depth_file(sample)>>)
    IN  add_outputs(j2, <<depth_file(sample)>>)

metabat_job(sample) ==
    LET j1 == add_args(Job("metabat2"),
                  <<"-i", contigs(sample), "-a", depth_file(sample),
                    "-o", sample.id \o "_bins/bin", "-m", "1500", "-t", "4">>)
        j2 == add_inputs(j1, <<contigs(sample), depth_file(sample)>>)
    IN  add_outputs(j2, <<bins_dir(sample)>>)

(***************************************************************************)
(* Step 7: CheckM2, step 8: GTDB-Tk, step 9: Prokka.                       *)
(***************************************************************************)
\* Variant of checkm2_job that declares the database as an input file.
checkm2_job_db_as_input(sample, db) ==
    LET j1 == add_args(Job("checkm2"),
                  <<"predict", "--input", bins_dir(sample),
                    "--output-directory", sample.id \o "_checkm2",
                    "--threads", "8">>)
        j2 == IF db # NoDb THEN add_args(j1, <<"--database_path", db>>) ELSE j1
        j3 == add_inputs(j2, IF db # NoDb THEN <<bins_dir(sample), File(db)>>
                             ELSE <<bins_dir(sample)>>)
    IN  add_outputs(j3, <<checkm2_report(sample)>>)

checkm2_job(sample, db) ==
    LET j1 == add_args(Job("checkm2"),
                  <<"predict", "--input", bins_dir(sample),
                    "--output-directory", sample.id \o "_checkm2",
                    "--threads", "8">>)
        j2 == IF db # NoDb THEN add_args(j1, <<"--database_path", db>>) ELSE j1
        j3 == add_inputs(j2, <<bins_dir(sample)>>)
    IN  add_outputs(j3, <<checkm2_report(sample)>>)

\* Variant of gtdbtk_job that consumes the bins only.
gtdbtk_job_bins_only(sample, db) ==
    LET gtdbtk_summary == File(sample.id \o "_gtdbtk.summary.tsv")
        j1 == add_args(Job("gtdbtk"),
                  <<"classify_wf", "--genome_dir", bins_dir(sample),
                    "--out_dir", sample.id \o "_gtdbtk",
                    "--extension", "fa", "--cpus", "8">>)
        j2 == IF db # NoDb THEN add_args(j1, <<"--gtdbtk_data_path", db>>) ELSE j1
        j3 == add_inputs(j2, <<bins_dir(sample)>>)
        j4 == add_outputs(j3, <<gtdbtk_summary>>)
    IN  add_profiles(j4, "memory", "64GB")

gtdbtk_job(sample, db) ==
    LET gtdbtk_summary == File(sample.id \o "_gtdbtk.summary.tsv")
        j1 == add_args(Job("gtdbtk"),
                  <<"classify_wf", "--genome_dir", bins_dir(sample),
                    "--out_dir", sample.id \o "_gtdbtk",
                    "--extension", "fa", "--cpus", "8">>)
        j2 == IF db # NoDb THEN add_args(j1, <<"--gtdbtk_data_path", db>>) ELSE j1
        j3 == add_inputs(j2, <<bins_dir(sample), checkm2_report(sample)>>)
        j4 == add_outputs(j3, <<gtdbtk_summary>>)
    IN  add_profiles(j4, "memory", "64GB")

prokka_job(sample) ==
    LET prokka_gff == File(sample.id \o "_prokka.gff")
        prokka_gbk == File(sample.id \o "_prokka.gbk")
        prokka_faa == File(sample.id \o "_prokka.faa")
        j1 == add_args(Job("prokka"),
                  <<"--outdir", sample.id \o "_prokka", "--prefix", sample.id,
                    "--metagenome", "--cpus", "4", bins_dir(sample)>>)
        j2 == add_inputs(j1, <<bins_dir(sample)>>)
    IN  add_outputs(j2, <<prokka_gff, prokka_gbk, prokka_faa>>)

(***************************************************************************)
(* Step 10: MultiQC over every QC file collected.                          *)
(***************************************************************************)
multiqc_job(qc_files) ==
    LET multiqc_report == File("multiqc_report.html")
        multiqc_data == File("multiqc_data.json")
        j1 == add_args(Job("multiqc"), <<".", "-o", "multiqc_output", "--force">>)
        j2 == add_inputs(j1, qc_files)
    IN  add_outputs(j2, <<multiqc_report, multiqc_data>>)

(***************************************************************************)
(* The conditions of the optional stages, and the head of the sample loop. *)
(***************************************************************************)
run_fastqc == ~skip_fastqc

\* Variant of run_binning that ignores the flag.
run_binning_flag_ignored == TRUE

run_binning == ~skip_binning

\* Variant of run_taxonomy that ignores the flag.
run_taxonomy_flag_ignored == TRUE

run_taxonomy == ~skip_taxonomy

\* Variant of run_annotation with the negation dropped.
run_annotation_inverted == skip_annotation

run_annotation == ~skip_annotation

\* Variant of loop_head with an off-by-one bound: the last sample is skipped.
loop_head_skips_last(i) == IF i < Len(samples) THEN "fastqc" ELSE "multiqc"

\* "for sample in samples": the body runs for sample i, or the loop is over.
loop_head(i) == IF i <= Len(samples) THEN "fastqc" ELSE "multiqc"

sample == samples[idx]

(***************************************************************************)
(* create_workflow starts with an empty Workflow and empty tracking lists. *)
(***************************************************************************)
\* Variant of empty_at_entry for a list that outlives the call (a list held
\* at module level or as a mutable default argument).
kept_from_earlier_call(left_over) == left_over

\* The Workflow and the tracking lists are created anew at every call,
\* whatever an earlier call has left in them.
empty_at_entry(left_over) == <<>>

\* The locals of create_workflow when the loop is first reached.
Entry ==
    /\ wf = empty_at_entry(<<>>)
    /\ all_qc_files = empty_at_entry(<<>>)
    /\ all_bin_dirs = empty_at_entry(<<>>)
    /\ idx = 1
    /\ pc = loop_head(1)

InitOver(sample_lists) ==
    /\ samples \in sample_lists
    /\ assembler \in Assemblers
    /\ skip_binning \in BOOLEAN
    /\ skip_taxonomy \in BOOLEAN
    /\ skip_annotation \in BOOLEAN
    /\ skip_fastqc \in BOOLEAN
    /\ gtdbtk_db = NoDb
    /\ checkm2_db = NoDb
    /\ calls = 1
    /\ previous = <<>>
    /\ Entry

Init == InitOver(SampleLists)

(***************************************************************************)
(* The loop body, one action per pipeline step.                            *)
(***************************************************************************)
FastQC ==
    /\ pc = "fastqc"
    /\ IF run_fastqc
       THEN /\ all_qc_files' = all_qc_files \o fastqc_qc_files(sample)
            /\ wf' = Append(wf, fastqc_job(sample))
       ELSE UNCHANGED <<all_qc_files, wf>>
    /\ pc' = "fastp"
    /\ UNCHANGED <<inputVars, callVars, all_bin_dirs, idx>>

Fastp ==
    /\ pc = "fastp"
    /\ all_qc_files' = Append(all_qc_files, fastp_json(sample))
    /\ wf' = Append(wf, fastp_job(sample))
    /\ pc' = "assembly"
    /\ UNCHANGED <<inputVars, callVars, all_bin_dirs, idx>>

Assembly ==
    /\ pc = "assembly"
    /\ wf' = Append(wf, assembly_job(sample, assembler))
    /\ pc' = "quast"
    /\ UNCHANGED <<inputVars, callVars, all_qc_files, all_bin_dirs, idx>>

Quast ==
    /\ pc = "quast"
    /\ wf' = Append(wf, quast_job(sample))
    /\ all_qc_files' = Append(all_qc_files, quast_report(sample))
    /\ pc' = "prodigal"
    /\ UNCHANGED <<inputVars, callVars, all_bin_dirs, idx>>

Prodigal ==
    /\ pc = "prodigal"
    /\ wf' = Append(wf, prodigal_job(sample))
    /\ IF run_binning
       THEN /\ pc' = "depth"
            /\ idx' = idx
       ELSE /\ pc' = loop_head(idx + 1)
            /\ idx' = idx + 1
    /\ UNCHANGED <<inputVars, callVars, all_qc_files, all_bin_dirs>>

Depth ==
    /\ pc = "depth"
    /\ wf' = Append(wf, depth_job(sample))
    /\ pc' = "metabat"
    /\ UNCHANGED <<inputVars, callVars, all_qc_files, all_bin_dirs, idx>>

MetaBAT ==
    /\ pc = "metabat"
    /\ wf' = Append(wf, metabat_job(sample))
    /\ all_bin_dirs' = Append(all_bin_dirs, bins_dir(sample))
    /\ pc' = "checkm2"
    /\ UNCHANGED <<inputVars, callVars, all_qc_files, idx>>

CheckM2 ==
    /\ pc = "checkm2"
    /\ wf' = Append(wf, checkm2_job(sample, checkm2_db))
    /\ all_qc_files' = Append(all_qc_files, checkm2_report(sample))
    /\ pc' = "gtdbtk"
    /\ UNCHANGED <<inputVars, callVars, all_bin_dirs, idx>>

GTDBTk ==
    /\ pc = "gtdbtk"
    /\ IF run_taxonomy
       THEN wf' = Append(wf, gtdbtk_job(sample, gtdbtk_db))
       ELSE wf' = wf
    /\ pc' = "prokka"
    /\ UNCHANGED <<inputVars, callVars, all_qc_files, all_bin_dirs, idx>>

Prokka ==
    /\ pc = "prokka"
    /\ IF run_annotation
       THEN wf' = Append(wf, prokka_job(sample))
       ELSE wf' = wf
    /\ pc' = loop_head(idx + 1)
    /\ idx' = idx + 1
    /\ UNCHANGED <<inputVars, callVars, all_qc_files, all_bin_dirs>>

(***************************************************************************)
(* After the loop: the MultiQC job, then "return wf".                      *)
(***************************************************************************)
MultiQC ==
    /\ pc = "multiqc"
    /\ wf' = Append(wf, multiqc_job(all_qc_files))
    /\ pc' = "return"
    /\ UNCHANGED <<inputVars, callVars, all_qc_files, all_bin_dirs, idx>>

HasRepeats(seq) == \E a, b \in 1..Len(seq) : a # b /\ seq[a] = seq[b]

\* Job.add_inputs is code of the Pegasus API, which is not part of the
\* source: whether it refuses a file that the job already uses is left open,
\* so a repeated QC file name may also end the call with the API's error.
MultiQCRefused ==
    /\ pc = "multiqc"
    /\ HasRepeats(all_qc_files)
    /\ pc' = "raised"
    /\ UNCHANGED <<inputVars, callVars, wf, all_qc_files, all_bin_dirs, idx>>

Next ==
    \/ FastQC
    \/ Fastp
    \/ Assembly
    \/ Quast
    \/ Prodigal
    \/ Depth
    \/ MetaBAT
    \/ CheckM2
    \/ GTDBTk
    \/ Prokka
    \/ MultiQC
    \/ MultiQCRefused

Spec == Init /\ [][Next]_vars

\* The call has returned its Workflow to the caller.
Returned == pc = "return"

(***************************************************************************)
(* Vocabulary of the properties.                                           *)
(***************************************************************************)
Range(seq) == {seq[k] : k \in 1..Len(seq)}

UniqueIds ==
    \A a, b \in 1..Len(samples) : a # b => samples[a].id # samples[b].id

DefaultConfig ==
    /\ assembler = "megahit"
    /\ ~skip_fastqc /\ ~skip_binning /\ ~skip_taxonomy /\ ~skip_annotation

AllPaired == \A k \in 1..Len(samples) : ~samples[k].single_end

JobsOf(tool) == {k \in 1..Len(wf) : wf[k].transformation = tool}

BoolToNat(b) == IF b THEN 1 ELSE 0

\* The raw reads of the run: R1 of every sample, R2 of every paired sample.
RawReads ==
    {samples[k].id \o "_R1.fastq.gz" : k \in 1..Len(samples)}
    \cup {samples[k].id \o "_R2.fastq.gz" :
             k \in {n \in 1..Len(samples) : ~samples[n].single_end}}

RECURSIVE Flatten(_)
Flatten(seqs) == IF seqs = <<>> THEN <<>> ELSE Head(seqs) \o Flatten(Tail(seqs))

AllOutputs == Flatten([k \in 1..Len(wf) |-> wf[k].outputs])

(***************************************************************************)
(* C1: for a non-empty sample list with unique ids, the returned graph     *)
(* holds, per sample, one fastp, one assembler, one quast and one prodigal *)
(* job, one fastqc job unless skip_fastqc, and unless skip_binning the     *)
(* depth, bin and checkm2 jobs plus gtdbtk unless skip_taxonomy and prokka *)
(* unless skip_annotation; plus exactly one multiqc job when a QC file     *)
(* exists.  Two paired samples under the default configuration give 21.    *)
(***************************************************************************)
StagesPerSample ==
    1 + BoolToNat(~skip_fastqc) + 1 + 1 + 1
      + (IF ~skip_binning
         THEN 3 + BoolToNat(~skip_taxonomy) + BoolToNat(~skip_annotation)
         ELSE 0)

C1_JobCount ==
    (Returned /\ samples # <<>> /\ UniqueIds) =>
        /\ Len(wf) = Len(samples) * StagesPerSample
                       + BoolToNat(all_qc_files # <<>>)
        /\ Cardinality(JobsOf("multiqc")) = BoolToNat(all_qc_files # <<>>)
        /\ Cardinality(JobsOf("fastp")) = Len(samples)
        /\ Cardinality(JobsOf("fastqc")) = Len(samples) * BoolToNat(~skip_fastqc)
        /\ Cardinality(JobsOf(assembler)) = Len(samples)
        /\ Cardinality(JobsOf("quast")) = Len(samples)
        /\ Cardinality(JobsOf("prodigal")) = Len(samples)
        /\ Cardinality(JobsOf("metabat2")) = 2 * Len(samples) * BoolToNat(~skip_binning)
        /\ Cardinality(JobsOf("checkm2")) = Len(samples) * BoolToNat(~skip_binning)
        /\ Cardinality(JobsOf("gtdbtk")) =
               Len(samples) * BoolToNat(~skip_binning /\ ~skip_taxonomy)
        /\ Cardinality(JobsOf("prokka")) =
               Len(samples) * BoolToNat(~skip_binning /\ ~skip_annotation)
        /\ (Len(samples) = 2 /\ AllPaired /\ DefaultConfig => Len(wf) = 21)

C1_Witness ==
    /\ Returned /\ UniqueIds /\ Len(samples) = 2 /\ AllPaired /\ DefaultConfig
    /\ Len(wf) = 21

(***************************************************************************)
(* C2: every input of a job is a raw read of some sample or an output of   *)
(* a job added strictly earlier, and every producer-to-consumer edge       *)
(* points from an earlier job to a later one, so that the construction     *)
(* order is a topological order.  Stated on sample lists with pairwise     *)
(* distinct ids, where repeated ids play no part.                          *)
(***************************************************************************)
C2_ConstructionOrderTopological ==
    UniqueIds =>
        \A b \in 1..Len(wf) : \A f \in Range(wf[b].inputs) :
            /\ f \in RawReads \/ \E a \in 1..(b - 1) : f \in Range(wf[a].outputs)
            /\ \A a \in 1..Len(wf) : f \in Range(wf[a].outputs) => a < b

(***************************************************************************)
(* C3: with pairwise distinct sample ids, no artifact name is declared as  *)
(* an output twice in the returned graph, the multiqc outputs included.    *)
(***************************************************************************)
C3_SingleProducer ==
    (Returned /\ UniqueIds) => Cardinality(Range(AllOutputs)) = Len(AllOutputs)

C3_Witness ==
    /\ Returned /\ UniqueIds /\ DefaultConfig
    /\ {samples[k].id : k \in 1..Len(samples)} = {"s1", "s1_trimmed"}
    /\ "multiqc_report.html" \in Range(AllOutputs)
    /\ "s1_trimmed_fastp.html" \in Range(AllOutputs)

(***************************************************************************)
(* C4: with pairwise distinct sample ids, no output of a job has the name  *)
(* of a raw read of the run.                                               *)
(***************************************************************************)
C4_ProducedNeverRaw ==
    UniqueIds => Range(AllOutputs) \cap RawReads = {}

(***************************************************************************)
(* C5: a sample list in which two samples share an id is refused: no graph *)
(* is returned for it.                                                     *)
(***************************************************************************)
C5_DuplicateIdRefused == ~UniqueIds => ~Returned

(***************************************************************************)
(* C6: an empty sample list is refused: no graph is returned for it, not   *)
(* even one that holds only a multiqc job.                                 *)
(***************************************************************************)
C6_EmptySampleSetRefused == samples = <<>> => ~Returned

(***************************************************************************)
(* C7: a multiqc job exists only if it has at least one input artifact.    *)
(***************************************************************************)
C7_NoEmptyAggregation ==
    \A k \in JobsOf("multiqc") : wf[k].inputs # <<>>

(***************************************************************************)
(* The QC files the aggregation is to receive: per sample, in input order, *)
(* the fastqc zips (R1, then R2 if paired) unless skip_fastqc, the fastp   *)
(* JSON, the quast TSV, and the checkm2 TSV unless skip_binning.           *)
(***************************************************************************)
SampleQC(s) ==
    (IF skip_fastqc THEN <<>>
     ELSE IF s.single_end THEN <<s.id \o "_R1_fastqc.zip">>
     ELSE <<s.id \o "_R1_fastqc.zip", s.id \o "_R2_fastqc.zip">>)
    \o <<s.id \o "_fastp.json", s.id \o "_quast_report.tsv">>
    \o (IF skip_binning THEN <<>> ELSE <<s.id \o "_checkm2_quality.tsv">>)

ExpectedQC == Flatten([k \in 1..Len(samples) |-> SampleQC(samples[k])])

(***************************************************************************)
(* C8: with skip_binning set, no metabat2, checkm2, gtdbtk or prokka job   *)
(* is ever in the graph, and the returned graph is the chain fastqc (if    *)
(* enabled), fastp, assembler, quast, prodigal per sample followed by      *)
(* multiqc: an expression in which skip_taxonomy and skip_annotation do    *)
(* not occur, hence the same graph for their four combinations.            *)
(***************************************************************************)
BinningTools == {"metabat2", "checkm2", "gtdbtk", "prokka"}

ChainWithoutBinning(s) ==
    (IF skip_fastqc THEN <<>> ELSE <<fastqc_job(s)>>)
    \o <<fastp_job(s), assembly_job(s, assembler), quast_job(s), prodigal_job(s)>>

GraphWithoutBinning ==
    Flatten([k \in 1..Len(samples) |-> ChainWithoutBinning(samples[k])])
    \o <<multiqc_job(ExpectedQC)>>

C8_SkipBinningIgnoresSubFlags ==
    skip_binning =>
        /\ \A k \in 1..Len(wf) : wf[k].transformation \notin BinningTools
        /\ Returned => wf = GraphWithoutBinning

C8_Witness ==
    /\ Returned /\ skip_binning /\ ~skip_taxonomy /\ ~skip_annotation
    /\ Len(samples) = 2
    /\ wf = GraphWithoutBinning

(***************************************************************************)
(* C9: a job built for a single-end sample mentions neither the sample's   *)
(* reverse read nor a trimmed reverse read; its fastp job has no -I / -O   *)
(* argument; its assembler job has no -1 / -2 argument, takes the read     *)
(* with -r (megahit) or -s (spades) and has exactly one input.             *)
(***************************************************************************)
LoopSteps ==
    {"fastqc", "fastp", "assembly", "quast", "prodigal",
     "depth", "metabat", "checkm2", "gtdbtk", "prokka"}

Mentions(job) == Range(job.args) \cup Range(job.inputs) \cup Range(job.outputs)

SingleEndForm(job, s) ==
    /\ (s.id \o "_R2.fastq.gz") \notin Mentions(job)
    /\ (s.id \o "_trimmed_R2.fastq.gz") \notin Mentions(job)
    /\ job.transformation = "fastp" =>
           "-I" \notin Range(job.args) /\ "-O" \notin Range(job.args)
    /\ job.transformation \in Assemblers =>
           /\ "-1" \notin Range(job.args) /\ "-2" \notin Range(job.args)
           /\ (IF job.transformation = "megahit" THEN "-r" ELSE "-s")
                  \in Range(job.args)
           /\ Len(job.inputs) = 1

C10_MultiQCInputs ==
    Returned =>
        /\ JobsOf("multiqc") = {Len(wf)}
        /\ wf[Len(wf)].inputs = ExpectedQC
        /\ (Len(samples) = 2 /\ AllPaired /\ DefaultConfig) =>
               Len(wf[Len(wf)].inputs) = 10
        /\ (skip_fastqc /\ skip_binning) =>
               Range(wf[Len(wf)].inputs) =
                   {samples[k].id \o "_fastp.json" : k \in 1..Len(samples)}
                   \cup {samples[k].id \o "_quast_report.tsv" : k \in 1..Len(samples)}

C10_Witness ==
    /\ Returned /\ Len(samples) = 2 /\ AllPaired /\ DefaultConfig /\ UniqueIds
    /\ Len(wf[Len(wf)].inputs) = 10
    /\ wf[Len(wf)].inputs[10] = samples[2].id \o "_checkm2_quality.tsv"

(***************************************************************************)
(* C12: for one single-end sample with skip_taxonomy and skip_annotation   *)
(* (megahit, fastqc and binning enabled) the returned graph holds the      *)
(* eight jobs fastqc, fastp, megahit, quast, prodigal, metabat2 depth,     *)
(* metabat2 bin and checkm2 of that sample, in this order, followed by the *)
(* multiqc job: nine jobs.                                                 *)
(***************************************************************************)
OneSingleEndNoTaxonomyNoAnnotation ==
    /\ Len(samples) = 1 /\ samples[1].single_end
    /\ assembler = "megahit" /\ ~skip_fastqc /\ ~skip_binning
    /\ skip_taxonomy /\ skip_annotation

C12_EightJobsAndMultiQC ==
    (Returned /\ OneSingleEndNoTaxonomyNoAnnotation) =>
        /\ [k \in 1..Len(wf) |-> wf[k].transformation] =
               <<"fastqc", "fastp", "megahit", "quast", "prodigal",
                 "metabat2", "metabat2", "checkm2", "multiqc">>
        /\ wf[6].outputs = <<samples[1].id \o "_depth.txt">>
        /\ wf[7].outputs = <<samples[1].id \o "_bins">>
        /\ Len(wf) - Cardinality(JobsOf("multiqc")) = 8

C12_Witness ==
    /\ Returned /\ OneSingleEndNoTaxonomyNoAnnotation
    /\ Len(wf) = 9 /\ wf[8].transformation = "checkm2"

\* C12 as stated: seven jobs for the sample plus one multiqc job.
C12_SevenJobsAndMultiQC ==
    (Returned /\ OneSingleEndNoTaxonomyNoAnnotation) =>
        /\ Cardinality(JobsOf("multiqc")) = 1
        /\ Len(wf) - Cardinality(JobsOf("multiqc")) = 7

(***************************************************************************)
(* C14: the gtdbtk job added for a sample has exactly that sample's bins   *)
(* and checkm2 quality report as inputs, and the checkm2 job that outputs  *)
(* the report is already in the graph; the prokka job added for a sample   *)
(* has only that sample's bins as input.                                   *)
(***************************************************************************)
C14_TaxonomyAfterQuality ==
    [][(pc \in {"gtdbtk", "prokka"} /\ Len(wf') > Len(wf)) =>
           LET job == wf'[Len(wf')]
               id == samples[idx].id
           IN  /\ pc = "gtdbtk" =>
                      /\ job.transformation = "gtdbtk"
                      /\ job.inputs = <<id \o "_bins", id \o "_checkm2_quality.tsv">>
                      /\ \E c \in 1..Len(wf) :
                             /\ wf[c].transformation = "checkm2"
                             /\ wf[c].inputs = <<id \o "_bins">>
                             /\ (id \o "_checkm2_quality.tsv") \in Range(wf[c].outputs)
               /\ pc = "prokka" =>
                      /\ job.transformation = "prokka"
                      /\ job.inputs = <<id \o "_bins">>]_vars

C14_Witness ==
    /\ Returned /\ ~skip_binning /\ ~skip_taxonomy /\ ~skip_annotation
    /\ \E g \in JobsOf("gtdbtk") : \E p \in JobsOf("prokka") :
           /\ wf[g].inputs = <<"s2_bins", "s2_checkm2_quality.tsv">>
           /\ wf[p].inputs = <<"s2_bins">>

(***************************************************************************)
(* C16: the assembler job carries the memory override of its branch, 16GB  *)
(* for megahit and 32GB for spades, with 8 and 16 cores (the cores taken   *)
(* from the job if it overrides them, else from its transformation).       *)
(***************************************************************************)
Overrides(job, key) ==
    {job.profiles[n].value :
        n \in {m \in 1..Len(job.profiles) : job.profiles[m].key = key}}

JobCores(job) ==
    IF Overrides(job, "cores") # {}
    THEN Overrides(job, "cores")
    ELSE {TOOL_CONFIGS[job.transformation].cores}

C16_AssemblerOverride ==
    \A k \in 1..Len(wf) :
        /\ wf[k].transformation = "megahit" =>
               Overrides(wf[k], "memory") = {"16GB"} /\ JobCores(wf[k]) = {8}
        /\ wf[k].transformation = "spades" =>
               Overrides(wf[k], "memory") = {"32GB"} /\ JobCores(wf[k]) = {16}

(***************************************************************************)
(* C18: once all samples are processed, every sample has contributed its   *)
(* fastp JSON and its quast TSV to the QC files, under every combination   *)
(* of skip flags, so the QC file list is empty exactly when the sample     *)
(* list is empty.                                                          *)
(***************************************************************************)
LoopDone == pc \in {"multiqc", "return", "raised"}

C18_QCEmptyIffNoSamples ==
    LoopDone =>
        /\ \A k \in 1..Len(samples) :
               /\ (samples[k].id \o "_fastp.json") \in Range(all_qc_files)
               /\ (samples[k].id \o "_quast_report.tsv") \in Range(all_qc_files)
        /\ Len(all_qc_files) >= 2 * Len(samples)
        /\ (all_qc_files = <<>>) <=> (samples = <<>>)

C18_Witness ==
    /\ pc = "multiqc" /\ skip_fastqc /\ skip_binning /\ skip_taxonomy /\ skip_annotation
    /\ Len(samples) = 2 /\ UniqueIds
    /\ Len(all_qc_files) = 4

(***************************************************************************)
(* A second call of create_workflow by the same caller, once the first has *)
(* returned: with the same sample list, assembler and binning, taxonomy    *)
(* and annotation flags, and with the given skip_fastqc and database paths.*)
(***************************************************************************)
CallAgain(new_skip_fastqc, new_checkm2_db, new_gtdbtk_db) ==
    /\ pc = "return"
    /\ calls = 1
    /\ calls' = 2
    /\ previous' = wf
    /\ skip_fastqc' = new_skip_fastqc
    /\ checkm2_db' = new_checkm2_db
    /\ gtdbtk_db' = new_gtdbtk_db
    /\ wf' = empty_at_entry(wf)
    /\ all_qc_files' = empty_at_entry(all_qc_files)
    /\ all_bin_dirs' = empty_at_entry(all_bin_dirs)
    /\ idx' = 1
    /\ pc' = loop_head(1)
    /\ UNCHANGED <<samples, assembler, skip_binning, skip_taxonomy, skip_annotation>>

SecondReturned == calls = 2 /\ Returned

InitTwoCalls == InitOver(TwoCallSampleLists)

\* Both calls with identical inputs.
NextTwice == Next \/ CallAgain(skip_fastqc, checkm2_db, gtdbtk_db)

SpecTwice == InitTwoCalls /\ [][NextTwice]_vars

\* The second call with skip_fastqc toggled.
NextToggleFastqc == Next \/ CallAgain(~skip_fastqc, checkm2_db, gtdbtk_db)

SpecToggleFastqc == InitTwoCalls /\ [][NextToggleFastqc]_vars

\* The second call with any database paths, the first having none.
NextDb ==
    \/ Next
    \/ \E c \in Checkm2DbPaths, g \in GtdbtkDbPaths : CallAgain(skip_fastqc, c, g)

SpecDb == InitTwoCalls /\ [][NextDb]_vars

\* The producer-to-consumer edges of a graph, as pairs of job positions.
Edges(g) ==
    {e \in (1..Len(g)) \X (1..Len(g)) :
        Range(g[e[1]].outputs) \cap Range(g[e[2]].inputs) # {}}

ArtifactNames(g) ==
    UNION {Range(g[k].inputs) \cup Range(g[k].outputs) : k \in 1..Len(g)}

FastqcOutputs(g) ==
    UNION {Range(g[k].outputs) :
              k \in {n \in 1..Len(g) : g[n].transformation = "fastqc"}}

WithoutFastqc(g) ==
    LET NotFastqcJob(job) == job.transformation # "fastqc"
        NotFastqcFile(f) == f \notin FastqcOutputs(g)
        rest == SelectSeq(g, NotFastqcJob)
    IN  [k \in 1..Len(rest) |->
            IF rest[k].transformation = "multiqc"
            THEN [rest[k] EXCEPT !.inputs = SelectSeq(@, NotFastqcFile)]
            ELSE rest[k]]

FastqcFeedsOnlyMultiQC(g) ==
    \A k \in 1..Len(g) :
        /\ g[k].transformation = "fastp" => Range(g[k].inputs) \subseteq RawReads
        /\ g[k].transformation # "multiqc" =>
               Range(g[k].inputs) \cap FastqcOutputs(g) = {}

C15_SkipFastqcFrame ==
    SecondReturned =>
        /\ FastqcFeedsOnlyMultiQC(wf) /\ FastqcFeedsOnlyMultiQC(previous)
        /\ WithoutFastqc(wf) = WithoutFastqc(previous)
        /\ Edges(WithoutFastqc(wf)) = Edges(WithoutFastqc(previous))
        /\ skip_fastqc => WithoutFastqc(wf) = wf
        /\ ~skip_fastqc => WithoutFastqc(previous) = previous

C15_Witness ==
    /\ SecondReturned /\ skip_fastqc /\ UniqueIds /\ Len(samples) = 2
    /\ Len(previous) = Len(wf) + 2
    /\ Len(previous[Len(previous)].inputs) > Len(wf[Len(wf)].inputs)
    /\ WithoutFastqc(previous) = wf

(***************************************************************************)
(* C17: a call with database paths returns the graph of the call without   *)
(* them, job for job, with the same inputs, outputs and profiles and the   *)
(* same edges; only the arguments of the checkm2 jobs gain                 *)
(* "--database_path" and the path, and those of the gtdbtk jobs            *)
(* "--gtdbtk_data_path" and the path.  The checkm2 job's only input is the *)
(* bins artifact of its sample.                                            *)
(***************************************************************************)
DbArgs(tool) ==
    IF tool = "checkm2" /\ checkm2_db # NoDb
    THEN <<"--database_path", checkm2_db>>
    ELSE IF tool = "gtdbtk" /\ gtdbtk_db # NoDb
    THEN <<"--gtdbtk_data_path", gtdbtk_db>>
    ELSE <<>>

C17_DbPathsOnlyArguments ==
    SecondReturned =>
        /\ Len(wf) = Len(previous)
        /\ \A k \in 1..Len(wf) :
               /\ wf[k].transformation = previous[k].transformation
               /\ wf[k].inputs = previous[k].inputs
               /\ wf[k].outputs = previous[k].outputs
               /\ wf[k].profiles = previous[k].profiles
               /\ wf[k].args = previous[k].args \o DbArgs(wf[k].transformation)
               /\ wf[k].transformation = "checkm2" =>
                      \E n \in 1..Len(samples) :
                          wf[k].inputs = <<samples[n].id \o "_bins">>
        /\ Edges(wf) = Edges(previous)

C17_Witness ==
    /\ SecondReturned /\ checkm2_db = "/db/checkm2" /\ gtdbtk_db = "/db/gtdbtk"
    /\ \E k \in JobsOf("checkm2") : \E g \in JobsOf("gtdbtk") :
           /\ Len(wf[k].args) = Len(previous[k].args) + 2
           /\ wf[g].args[Len(wf[g].args)] = "/db/gtdbtk"
           /\ wf[k].inputs = <<"s1_bins">>

(***************************************************************************)
(* C13: a sample that is not flagged single_end and whose fastq_2 is empty *)
(* or names no file is built as a single-end sample: no job reads          *)
(* "{id}_R2.fastq.gz", its fastp job and its assembler job have the        *)
(* one-file form, and every file the graph reads that no job produces is   *)
(* registered in the replica catalog.                                      *)
(***************************************************************************)
InitReads == InitOver(ReadsSampleLists)

SpecReads == InitReads /\ [][Next]_vars

MissingReverse(s) ==
    ~s.single_end /\ (s.fastq_2 = "" \/ ~os_path_exists(s.fastq_2))

Referenced == UNION {Range(wf[k].inputs) : k \in 1..Len(wf)}

C13_MissingReverseIsSingleEnd ==
    (Returned /\ UniqueIds) =>
        /\ \A n \in 1..Len(samples) :
               MissingReverse(samples[n]) =>
                   /\ (samples[n].id \o "_R2.fastq.gz") \notin Referenced
                   /\ \A k \in 1..Len(wf) :
                          (samples[n].id \o "_R1.fastq.gz") \in Range(wf[k].inputs)
                          \/ (samples[n].id \o "_contigs.fa") \in Range(wf[k].outputs)
                              => SingleEndForm(wf[k], samples[n])
        /\ (Referenced \ Range(AllOutputs)) \subseteq create_replica_catalog(samples)

====
